---- MODULE Spec2Model ----
(***************************************************************************)
(* Model of redmine2gitea (src/main.py): the two-phase migration of        *)
(* Redmine issues to Gitea.  Phase 1 (process_issues / create_issue)       *)
(* creates every issue with its journal as comments and fills              *)
(* map_redmine_to_gitea; phase 2 (update_comments) rewrites the collected  *)
(* '#<id>' references.                                                     *)
(*                                                                         *)
(* A text is a sequence of one-character strings.  A literal of the source *)
(* that holds no '#' and neither starts nor ends with a digit is kept as   *)
(* one element of the sequence (for instance " (redmine id: ").  A name    *)
(* that the source takes apart (a project name, which is stripped and      *)
(* lower-cased) is written character by character; the name of a journal   *)
(* detail is one element unless it is made of digits.  Only ASCII letters, *)
(* digits and white space are told apart, and the value of a numeral stays *)
(* below 2^31 (a longer numeral is told by its number of digits only).     *)
(***************************************************************************)
EXTENDS Integers, Sequences, FiniteSets, TLC

\* ------------------------------------------------------------------ bounds
\* Longest list of source issues returned by get_issues().
MaxIssues == 2
\* The calls of add_labels for one issue are counted up to this number (the
\* loop of the source has no cap and goes on after it).
MaxLabelRetries == 2

\* ------------------------------------------------------------------- texts
DigitChars == <<"0", "1", "2", "3", "4", "5", "6", "7", "8", "9">>

IsDigit(ch) == \E d \in 1..10 : DigitChars[d] = ch

DigitVal(ch) == (CHOOSE d \in 1..10 : DigitChars[d] = ch) - 1

\* str(n) of a non-negative integer, as the f-strings of the source format it.
RECURSIVE Str(_)
Str(n) == IF n < 10 THEN <<DigitChars[n + 1]>>
          ELSE Str(n \div 10) \o <<DigitChars[(n % 10) + 1]>>

\* The digits of a numeral from its first digit that is not 0 on.
SignificantDigits(ds) ==
    IF \A p \in 1..Len(ds) : ds[p] = "0" THEN <<>>
    ELSE SubSeq(ds, CHOOSE p \in 1..Len(ds) :
                        ds[p] # "0" /\ \A q \in 1..(p - 1) : ds[q] = "0",
                Len(ds))

\* The value of a numeral in base 10.
RECURSIVE DecimalValue(_)
DecimalValue(ds) ==
    IF Len(ds) = 0 THEN 0
    ELSE DecimalValue(SubSeq(ds, 1, Len(ds) - 1)) * 10 + DigitVal(ds[Len(ds)])

\* sys.get_int_max_str_digits() of the interpreter: int() takes a numeral of
\* at most this number of digits.
INT_MAX_STR_DIGITS == 4300

\* int(match[1:]) on the digits of a token: base 10, leading zeros dropped;
\* ValueError for a numeral of more than INT_MAX_STR_DIGITS digits.
ParseInt(ds) ==
    IF Len(ds) > INT_MAX_STR_DIGITS THEN [raises |-> "ValueError", int |-> 0]
    ELSE [raises |-> "none", int |-> DecimalValue(SignificantDigits(ds))]

\* The control characters that Python takes for white space besides
\* "\t", "\n", "\f" and "\r": vertical tab 0x0B and the separators 0x1C to
\* 0x1F, each written as the character itself.
VT == ""
FS == ""
GS == ""
RS == ""
US == ""

\* str.strip(): the ASCII characters for which str.isspace() holds.
Whitespace == {" ", "\t", "\n", "\r", "\f", VT, FS, GS, RS, US}

\* int(): the ASCII characters it skips around a literal (isspace() of C).
IntWhitespace == {" ", "\t", "\n", "\r", "\f", VT}

\* s without its leading characters that are in chars.
RECURSIVE StripLeftOf(_, _)
StripLeftOf(s, chars) ==
    IF Len(s) > 0 /\ Head(s) \in chars THEN StripLeftOf(Tail(s), chars) ELSE s

\* s without its trailing characters that are in chars.
RECURSIVE StripRightOf(_, _)
StripRightOf(s, chars) ==
    IF Len(s) > 0 /\ s[Len(s)] \in chars
    THEN StripRightOf(SubSeq(s, 1, Len(s) - 1), chars) ELSE s

\* str.strip(): leading and trailing white space is dropped.
StripLeft(s) == StripLeftOf(s, Whitespace)

StripRight(s) == StripRightOf(s, Whitespace)

Strip(s) == StripRight(StripLeft(s))

\* The text int() reads its literal from: s without the white space around it.
IntStrip(s) == StripRightOf(StripLeftOf(s, IntWhitespace), IntWhitespace)

\* str.lower(), character by character.
UpperChars == <<"A", "B", "C", "D", "E", "F", "G", "H", "I", "J", "K", "L", "M",
                "N", "O", "P", "Q", "R", "S", "T", "U", "V", "W", "X", "Y", "Z">>
LowerChars == <<"a", "b", "c", "d", "e", "f", "g", "h", "i", "j", "k", "l", "m",
                "n", "o", "p", "q", "r", "s", "t", "u", "v", "w", "x", "y", "z">>

LowerChar(ch) == IF \E d \in 1..Len(UpperChars) : UpperChars[d] = ch
                 THEN LowerChars[CHOOSE d \in 1..Len(UpperChars) : UpperChars[d] = ch]
                 ELSE ch

Lower(s) == [p \in 1..Len(s) |-> LowerChar(s[p])]

\* The digits of an integer literal without its sign: digits, with single
\* underscores between them allowed.
IsIntLiteral(s) ==
    /\ Len(s) > 0
    /\ IsDigit(s[1])
    /\ IsDigit(s[Len(s)])
    /\ \A p \in 1..Len(s) : IsDigit(s[p]) \/ s[p] = "_"
    /\ \A p \in 1..(Len(s) - 1) : ~(s[p] = "_" /\ s[p + 1] = "_")

\* Number of consecutive digits of s from position p on: up to the first
\* position from p on that holds no digit, or to the end of s.
DigitRun(s, p) ==
    IF \A q \in p..Len(s) : IsDigit(s[q]) THEN IF p > Len(s) THEN 0 ELSE Len(s) - p + 1
    ELSE (CHOOSE q \in p..Len(s) :
              ~IsDigit(s[q]) /\ \A r \in p..(q - 1) : IsDigit(s[r])) - p

\* re.findall('(#[0-9]+)', s) from position p on: every non-overlapping match,
\* left to right, the digits taken greedily.
RECURSIVE FindAllFrom(_, _)
FindAllFrom(s, p) ==
    IF p > Len(s) THEN <<>>
    ELSE IF s[p] = "#" /\ DigitRun(s, p + 1) > 0
         THEN <<SubSeq(s, p, p + DigitRun(s, p + 1))>>
              \o FindAllFrom(s, p + DigitRun(s, p + 1) + 1)
         ELSE FindAllFrom(s, p + 1)

FindAll(s) == FindAllFrom(s, 1)

\* old occurs in s at position p.
OccursAt(s, p, old) ==
    /\ p + Len(old) - 1 <= Len(s)
    /\ SubSeq(s, p, p + Len(old) - 1) = old

\* The first position from p on at which old occurs in s (there is one).
NextOccurrence(s, p, old) ==
    CHOOSE q \in p..Len(s) :
        OccursAt(s, q, old) /\ \A r \in p..(q - 1) : ~OccursAt(s, r, old)

\* str.replace(old, new) from position p on: every non-overlapping occurrence
\* of the non-empty old, left to right, the text between them kept.
RECURSIVE ReplaceFrom(_, _, _, _)
RECURSIVE ReplaceAt(_, _, _, _, _)

\* The text from p on whose next occurrence of old is at q.
ReplaceAt(s, p, q, old, new) ==
    SubSeq(s, p, q - 1) \o new \o ReplaceFrom(s, q + Len(old), old, new)

ReplaceFrom(s, p, old, new) ==
    IF \E q \in p..Len(s) : OccursAt(s, q, old)
    THEN ReplaceAt(s, p, NextOccurrence(s, p, old), old, new)
    ELSE SubSeq(s, p, Len(s))

Replace(s, old, new) == ReplaceFrom(s, 1, old, new)

\* f'#{gitea_id} (redmine id: {issue_id})'
Composite(gitea_id, issue_id) ==
    <<"#">> \o Str(gitea_id) \o <<" (redmine id: ">> \o Str(issue_id) \o <<")">>

\* The inner loop of update_comments: one str.replace per element of matches,
\* in order, each on the result of the one before; a token whose ID has no
\* registry entry is only reported, and a token that int() does not take
\* raises its exception, which leaves update_comments.
RECURSIVE RewriteContent(_, _, _)
RECURSIVE RewriteMatch(_, _, _, _, _)

\* Lines 79-85 for one element of matches, issue_id being the outcome of
\* int(match[1:]), and then the elements after it.
RewriteMatch(content, match, issue_id, rest, registry) ==
    IF issue_id.raises # "none" THEN [raises |-> issue_id.raises, content |-> content]
    ELSE RewriteContent(
             IF issue_id.int \in DOMAIN registry
             THEN Replace(content, match,
                          Composite(registry[issue_id.int], issue_id.int))
             ELSE content,
             rest, registry)

RewriteContent(content, matches, registry) ==
    IF Len(matches) = 0 THEN [raises |-> "none", content |-> content]
    ELSE RewriteMatch(content, Head(matches), ParseInt(Tail(Head(matches))),
                      Tail(matches), registry)

\* SortList(l): list.sort() on a list of label IDs (insertion sort, ascending).
RECURSIVE Insert(_, _)
Insert(x, l) == IF Len(l) = 0 THEN <<x>>
                ELSE IF x <= Head(l) THEN <<x>> \o l
                     ELSE <<Head(l)>> \o Insert(x, Tail(l))

RECURSIVE SortList(_)
SortList(l) == IF Len(l) = 0 THEN <<>> ELSE Insert(Head(l), SortList(Tail(l)))

\* '\n'.join(parts)
RECURSIVE Join(_)
Join(parts) == IF Len(parts) = 0 THEN <<>>
               ELSE IF Len(parts) = 1 THEN parts[1]
                    ELSE parts[1] \o <<"\n">> \o Join(Tail(parts))

\* ------------------------------------------------------- configuration
\* os.getenv('DEFAULT_USERNAME')
DEFAULT_USERNAME == "migrator"

\* os.getenv('ORGANIZATION')
ORGANIZATION == <<"o", "r", "g">>

relation_types ==
    {<<"blocks">>, <<"blocked">>, <<"precedes">>, <<"follows">>, <<"relates">>,
     <<"duplicates">>, <<"duplicated">>, <<"copied_to">>, <<"copied_from">>}

\* redmine_project_name.strip().lower()
StripLower(redmine_project_name) == Lower(Strip(redmine_project_name))

\* get_gitea_repo: the stripped, lower-cased project name with its two
\* renames, after the organisation and a slash.
get_gitea_repo(redmine_project_name) ==
    LET project_name == StripLower(redmine_project_name)
    IN ORGANIZATION \o <<"/">>
       \o (IF project_name = <<"n", "u", "n", "o">>
           THEN <<"n", "u", "n", "o", "-", "a", "p", "i">>
           ELSE IF project_name = <<"c", "o", "t", "t", "o", "n">>
                THEN <<"t", "v">>
                ELSE project_name)

\* get_projects(): the names of the Redmine projects, by project id.
projects ==
    (1 :> <<"N", "u", "n", "o">>) @@ (2 :> <<" ", "C", "o", "t", "t", "o", "n">>)
    @@ (3 :> <<"W", "e", "b">>)

\* get_users(): the Redmine user directory, by user id.
users == (1 :> [username |-> "alice", name |-> "Alice A"])

\* get_username that gives the default username for every user.
get_default_username(id) == DEFAULT_USERNAME

\* get_username(users, id)
get_username(id) ==
    IF id \in DOMAIN users THEN users[id].username ELSE DEFAULT_USERNAME

\* The name -> id table that the label listing of a repository returns.
LabelNames == {"bug", "enhancement", "support", "migrated", "wontfix"}

LabelIndex(name) ==
    CASE name = "bug" -> 1 [] name = "enhancement" -> 2 [] name = "support" -> 3
      [] name = "migrated" -> 4 [] name = "wontfix" -> 5

RepoLabels(gitea_repo) ==
    [name \in LabelNames |->
        LabelIndex(name) + (IF gitea_repo = get_gitea_repo(projects[1]) THEN 0 ELSE 10)]

\* --------------------------------------------------------- field translation
\* issue_type_map with an entry for the tracker 'Task'.
issue_type_map_with_task ==
    [Bug |-> "bug", Feature |-> "enhancement", Support |-> "support", Task |-> "bug"]

\* issue_type_map of create_issue (tracker name -> label name).
issue_type_map == [Bug |-> "bug", Feature |-> "enhancement", Support |-> "support"]

\* "closed" of the creation payload.
Closed(status) == status \in {"Resolved", "Closed", "Rejected"}

\* data['labels'] of the creation payload, sorted; the tracker is mapped.
DataLabels(issue, table) ==
    SortList(<<table[issue_type_map[issue.tracker]], table["migrated"]>>
             \o (IF issue.status = "Rejected" THEN <<table["wontfix"]>> ELSE <<>>))

\* description = issue['description'].replace('\r\n', '\n')
Description(issue) == Replace(issue.description, <<"\r", "\n">>, <<"\n">>)

\* body of the creation payload: the description, the table of imported
\* properties (one element) and the rows of the non-empty custom fields.
Body(issue) ==
    <<"\n">> \o Description(issue) \o <<"\n\n***\n*Imported from Redmine*\n|table|\n">>
    \o (IF issue.custom_fields THEN <<"| field | value |">> ELSE <<>>)

\* ---------------------------------------------------------- journal rendering
\* A raw value of a journal detail: JSON null, or a text.
Null == [null |-> TRUE, text |-> <<>>]
Value(text) == [null |-> FALSE, text |-> text]
PyStr(v) == IF v.null THEN <<"None">> ELSE v.text

\* What an expression of the rendering gives: a value, or the exception it
\* raises.
Gives(v) == [raises |-> "none", value |-> v]
Raises(exception) == [raises |-> exception, value |-> Null]

\* map_status and the second issue_type_map of create_issue (lines 408-424);
\* each name is a text of one element.
map_status ==
    (1 :> <<"New">>) @@ (2 :> <<"In Progress">>) @@ (3 :> <<"Resolved">>)
    @@ (4 :> <<"Feedback">>) @@ (5 :> <<"Closed">>) @@ (6 :> <<"Rejected">>)
    @@ (8 :> <<"Review requested">>) @@ (9 :> <<"Review provided">>)
    @@ (10 :> <<"Ready for deploy">>)

tracker_by_id == (1 :> <<"Bug">>) @@ (2 :> <<"Feature">>) @@ (3 :> <<"Support">>)

\* str.isnumeric() of a property name: not empty and digits only.
IsNumeric(name) == Len(name) > 0 /\ \A p \in 1..Len(name) : IsDigit(name[p])

\* The outcome n of the conversion of a literal's digits, times sign.
Signed(sign, n) == [raises |-> n.raises, int |-> sign * n.int]

\* int() of a literal without its sign, times sign: ValueError for a text
\* that is no integer literal or has too many digits.
IntOfLiteral(sign, literal) ==
    IF IsIntLiteral(literal) THEN Signed(sign, ParseInt(SelectSeq(literal, IsDigit)))
    ELSE [raises |-> "ValueError", int |-> 0]

\* int() of a text without the white space around it: a sign is accepted.
IntOfStripped(t) ==
    IF Len(t) > 0 /\ t[1] \in {"+", "-"}
    THEN IntOfLiteral(IF t[1] = "-" THEN 0 - 1 ELSE 1, Tail(t))
    ELSE IntOfLiteral(1, t)

\* int(v) of a raw value: TypeError for None, else int() of the text.
PyInt(v) ==
    IF v.null THEN [raises |-> "TypeError", int |-> 0]
    ELSE IntOfStripped(IntStrip(v.text))

\* table[n] for the outcome n of int(v): the exception of int(v), or KeyError
\* for an id that the table does not hold.
LookupInt(table, n) ==
    IF n.raises # "none" THEN Raises(n.raises)
    ELSE IF n.int \in DOMAIN table THEN Gives(Value(table[n.int]))
         ELSE Raises("KeyError")

\* table[int(v)]
Lookup(table, v) == LookupInt(table, PyInt(v))

\* Lines 466-470 for a value that is not None, n being the outcome of int(v):
\* the name of the user n, or the value as it is for an unknown user.
AssignedName(v, n) ==
    IF n.raises # "none" THEN Raises(n.raises)
    ELSE IF n.int \in DOMAIN users THEN Gives(Value(<<users[n.int].name>>))
         ELSE Gives(v)

\* The look-ups of lines 454-470 for one value of a detail.
ResolvedValue(name, v) ==
    CASE name = <<"status_id">>  -> Lookup(map_status, v)
      [] name = <<"tracker_id">> -> Lookup(tracker_by_id, v)
      [] name = <<"project_id">> -> Lookup(projects, v)
      [] name = <<"assigned_to_id">> ->
             IF v.null THEN Gives(v) ELSE AssignedName(v, PyInt(v))
      [] OTHER -> Gives(v)

\* One value of a detail after lines 451-470 (first: the value is old_value,
\* for which '' is replaced by 'None' at lines 451-452).
Resolved(name, v, first) ==
    ResolvedValue(name, IF first /\ ~v.null /\ v.text = <<>>
                        THEN Value(<<"None">>) ELSE v)

\* Lines 472-478 for a detail whose name is not numeric, old and new being
\* the outcomes of the look-ups: the element of detail_text, or the exception
\* raised.  The backquotes around the name are written [ and ].
RenderDetail(name, unit, prefix_old, prefix_new, old, new) ==
    IF old.raises # "none" THEN Raises(old.raises)
    ELSE IF new.raises # "none" THEN Raises(new.raises)
    ELSE IF name \in {<<"subject">>, <<"description">>}
    THEN IF old.value.null \/ new.value.null THEN Raises("AttributeError")
         ELSE Gives(<<"[">> \o name \o <<"] changed from:\n> ">> \o prefix_old
                    \o Replace(old.value.text, <<"\n">>, <<"\n", "> ">>) \o unit
                    \o <<"\n\nto:\n\n> ">> \o prefix_new
                    \o Replace(new.value.text, <<"\n">>, <<"\n", "> ">>) \o unit
                    \o <<"\n">>)
    ELSE Gives(<<"*[">> \o name \o <<"] changed from ">> \o prefix_old
               \o PyStr(old.value) \o unit \o <<" to ">> \o prefix_new
               \o PyStr(new.value) \o unit \o <<"*">>)

\* One turn of the loop over the details (lines 435-478) for a detail whose
\* name is not numeric.
DetailText(detail) ==
    RenderDetail(detail.name,
                 IF detail.name = <<"done_ratio">> THEN <<"%">> ELSE <<>>,
                 IF detail.name \in relation_types /\ ~detail.old_value.null
                 THEN <<"#">> ELSE <<>>,
                 IF detail.name \in relation_types /\ ~detail.new_value.null
                 THEN <<"#">> ELSE <<>>,
                 Resolved(detail.name, detail.old_value, TRUE),
                 Resolved(detail.name, detail.new_value, FALSE))

\* detail_text.append: the list after one more detail, or the exception
\* raised first.
AppendDetail(text, rest) ==
    IF text.raises # "none" THEN text
    ELSE IF rest.raises # "none" THEN rest
         ELSE Gives(<<text.value>> \o rest.value)

\* detail_text after the loop over the details (lines 434-478): the texts of
\* the details whose name is not numeric, or the first exception raised.
RECURSIVE DetailTexts(_)
DetailTexts(details) ==
    IF Len(details) = 0 THEN Gives(<<>>)
    ELSE IF IsNumeric(Head(details).name) THEN DetailTexts(Tail(details))
         ELSE AppendDetail(DetailText(Head(details)), DetailTexts(Tail(details)))

\* Lines 480-487: the body made of the notes, the rendered details, the date
\* and, for the default user, the name of the user.
ComposeBody(notes, user, rendered) ==
    IF rendered.raises # "none" THEN rendered
    ELSE Gives(
        (IF Len(notes) > 0
         THEN notes \o (IF Len(rendered.value) > 0 THEN <<"\n***\n">> ELSE <<>>)
         ELSE <<>>)
        \o Join(rendered.value) \o <<"\n\n*Date: ", "created_on", "*">>
        \o (IF user = DEFAULT_USERNAME THEN <<"\n*User: ", "name", "*">> ELSE <<>>))

\* body of the comment posted for one journal entry (lines 427-487), or the
\* exception raised before add_comment is called.
CommentBody(comment) ==
    ComposeBody(comment.notes, get_username(comment.user), DetailTexts(comment.details))

\* ------------------------------------------------------------------ inputs
\* Texts of descriptions and notes: without a reference, with two references,
\* with a reference that is a prefix of another one (and a CR LF), and with
\* the same reference twice.
TextPlain == <<"x">>
TextRefs == <<"#", "2", " ", "#", "1">>
TextPrefix == <<"#", "1", "\r", "\n", "#", "1", "2">>
TextTwice == <<"#", "1", " ", "#", "1">>

\* Journal entries: one with neither note nor details, one with a note by a
\* user missing from the user directory, one with a relation detail.
EmptyEvent == [notes |-> <<>>, details |-> <<>>, user |-> 1]
NoteEvent == [notes |-> TextTwice, details |-> <<>>, user |-> 7]
RelationEvent ==
    [notes |-> <<>>, user |-> 1,
     details |-> <<[property |-> "relation", name |-> <<"relates">>,
                    old_value |-> Null, new_value |-> Value(<<"2">>)]>>]

\* What a source issue holds besides its id, project and visibility.
\* assigned_to is the id of issue['assigned_to'] (0: the issue has no such
\* key) and assigned_to_name its name: one issue is assigned to a user whose
\* name is '-', one to a user of the directory, one to nobody.
Contents ==
    { [description |-> TextPlain, tracker |-> "Bug", status |-> "New",
       author |-> 1, assigned_to |-> 7, assigned_to_name |-> "-",
       custom_fields |-> FALSE, journals |-> <<>>],
      [description |-> TextRefs, tracker |-> "Feature", status |-> "Rejected",
       author |-> 1, assigned_to |-> 1, assigned_to_name |-> "Alice A",
       custom_fields |-> TRUE, journals |-> <<NoteEvent>>],
      [description |-> TextPrefix, tracker |-> "Support", status |-> "Closed",
       author |-> 7, assigned_to |-> 0, assigned_to_name |-> "",
       custom_fields |-> FALSE, journals |-> <<EmptyEvent, RelationEvent>>] }

PlainContent == CHOOSE k \in Contents : k.description = TextPlain

SourceIds == {1, 2}
\* The projects that hold issues.
Projects == {projects[1], projects[2]}
Repos == {get_gitea_repo(p) : p \in Projects}

Issue(id, project, is_private, k) ==
    [id |-> id, project |-> project, is_private |-> is_private,
     description |-> k.description, tracker |-> k.tracker, status |-> k.status,
     author |-> k.author, assigned_to |-> k.assigned_to,
     assigned_to_name |-> k.assigned_to_name,
     custom_fields |-> k.custom_fields, journals |-> k.journals]

\* The issues get_issues() can return: an id is not assumed to occur once
\* (the listing is paginated by offset while the tracker is live).
IssueSet ==
    {Issue(id, p, TRUE, PlainContent) : id \in SourceIds, p \in Projects}
    \cup {Issue(id, p, FALSE, k) : id \in SourceIds, p \in Projects, k \in Contents}

IssueLists == UNION {[1..n -> IssueSet] : n \in 0..MaxIssues}

EmptyMap == [k \in {} |-> 0]

\* map_redmine_to_gitea.json: absent, or the registry an earlier run wrote.
NoFile == [exists |-> FALSE, content |-> EmptyMap]
StoredFile(registry) == [exists |-> TRUE, content |-> registry]

\* The registry left by an earlier run that migrated source issue 1 of
\* project Nuno as issue 1 of its repository and then stopped.
EarlierRegistry == (1 :> 1)
EarlierRepo == get_gitea_repo(projects[1])

\* ------------------------------------------------------------------- state
VARIABLES
    issues,                 \* get_issues(): the source issues, oldest first
    file,                   \* map_redmine_to_gitea.json
    file_at_start,          \* the file as the run found it
    labels,                 \* cache of get_labels, by repository
    comments_to_update,     \* the deferred references
    map_redmine_to_gitea,   \* the registry
    pc,                     \* where process_issues is
    i,                      \* index in issues of the issue of the for loop
    data,                   \* the creation payload of create_issue
    response,               \* the response to the creation request
    gitea_issue_id,         \* number of the issue created for issues[i]
    gitea_labels,           \* the label IDs last observed by the label loop
    attempts,               \* calls of add_labels made for issues[i]
    c,                      \* index of the journal entry of the comment loop
    u,                      \* index in comments_to_update of update_comments
    raised,                 \* the exception that left the for loop, or "none"
    next_number,            \* Gitea: the next issue number of each repository
    next_comment_id,        \* Gitea: the next comment id
    log                     \* the requests sent to Gitea, in order (the calls
                            \* of add_labels are counted in attempts instead)

vars == <<issues, file, file_at_start, labels, comments_to_update,
          map_redmine_to_gitea, pc, i, data, response, gitea_issue_id,
          gitea_labels, attempts, c, u, raised, next_number, next_comment_id, log>>

locals == <<data, response, gitea_issue_id, gitea_labels, attempts, c>>

\* 'body' as comment_id, or the id of a comment.
BodyId == [body |-> TRUE, id |-> 0]
CommentId(id) == [body |-> FALSE, id |-> id]

NoData == [body |-> <<>>, closed |-> FALSE, has_assignee |-> FALSE,
           assignee |-> "", labels |-> <<>>, sudo |-> ""]
NoResponse == [status |-> 0, number |-> 0, has_labels |-> FALSE, labels |-> <<>>]

\* One request to Gitea: kind is "labels" (label listing), "create",
\* "comment" or "edit"; issue is the index in issues of the
\* source issue in process (0 in update_comments); sudo is the user of the
\* ?sudo= parameter ("" for a request sent without it).
Request(kind, issue, gitea_repo, number, comment_id, body, has_assignee, status, sudo) ==
    [kind |-> kind, issue |-> issue, repo |-> gitea_repo, number |-> number,
     comment_id |-> comment_id, body |-> body, has_assignee |-> has_assignee,
     status |-> status, sudo |-> sudo]

Init ==
    /\ issues \in IssueLists
    /\ \E resumed \in BOOLEAN :
          /\ file = IF resumed THEN StoredFile(EarlierRegistry) ELSE NoFile
          /\ next_number =
                [r \in Repos |-> IF resumed /\ r = EarlierRepo THEN 2 ELSE 1]
    /\ file_at_start = file
    /\ labels = [r \in {} |-> 0]
    /\ comments_to_update = <<>>
    /\ map_redmine_to_gitea = EmptyMap
    /\ pc = "loop"
    /\ i = 1
    /\ data = NoData
    /\ response = NoResponse
    /\ gitea_issue_id = 0
    /\ gitea_labels = <<>>
    /\ attempts = 0
    /\ c = 1
    /\ u = 1
    /\ raised = "none"
    /\ next_comment_id = 1
    /\ log = <<>>

\* ----------------------------------------------------------------- helpers
\* check_for_references: the list comments_to_update after the call.
check_for_references(pending, content, gitea_repo, issue_id, comment_id) ==
    LET matches == FindAll(content)
    IN IF Len(matches) > 0
       THEN Append(pending, [gitea_repo |-> gitea_repo, issue_id |-> issue_id,
                             comment_id |-> comment_id, content |-> content,
                             matches |-> matches])
       ELSE pending

\* map_redmine_to_gitea[int(id)] = gitea_issue_id
Record(registry, id, number) ==
    [k \in DOMAIN registry \cup {id} |-> IF k = id THEN number ELSE registry[k]]

\* Label lists a response of Gitea may hold for an issue meant to carry
\* intended: all of them (in either order), or none of them yet.
RECURSIVE Reverse(_)
Reverse(l) == IF Len(l) = 0 THEN <<>> ELSE Append(Reverse(Tail(l)), Head(l))

ReportedLabels(intended) == {intended, Reverse(intended), <<>>}

\* Responses of Gitea to a creation request: created (with or without the
\* 'labels' key), rejected for the assignee (422), or another failure.
CreateResponses(gitea_repo, intended) ==
    {[status |-> 201, number |-> next_number[gitea_repo], has_labels |-> TRUE,
      labels |-> l] : l \in ReportedLabels(intended)}
    \cup {[status |-> 201, number |-> next_number[gitea_repo],
           has_labels |-> FALSE, labels |-> <<>>],
          [status |-> 422, number |-> 0, has_labels |-> FALSE, labels |-> <<>>],
          [status |-> 500, number |-> 0, has_labels |-> FALSE, labels |-> <<>>]}

\* Ok with a server error taken for a success.
OkOrServerError(status) == ~(status >= 400 /\ status < 500)

\* response.ok: the status is no client error and no server error.
Ok(status) == ~(status >= 400 /\ status < 600)

\* An exception leaves create_issue and the for loop: the finally clause is next.
Raise(exception) ==
    /\ pc' = "finally"
    /\ raised' = exception

\* The locals of create_issue go out of scope.
ResetLocals ==
    /\ data' = NoData
    /\ response' = NoResponse
    /\ gitea_issue_id' = 0
    /\ gitea_labels' = <<>>
    /\ attempts' = 0
    /\ c' = 1

\* ----------------------------------------------------------------- phase 1
\* SkipsIssue without the test of is_private.
SkipsNoIssue(issue) == FALSE

\* Lines 323-324: create_issue returns at once for a private issue.
SkipsIssue(issue) == issue.is_private

\* create_issue, lines 293-324: the fields are read, the labels of the
\* repository are fetched (a request unless cached), a private issue returns.
StartIssue ==
    /\ pc = "loop"
    /\ i <= Len(issues)
    /\ LET issue == issues[i]
           gitea_repo == get_gitea_repo(issue.project)
       IN \E listing \in (IF gitea_repo \in DOMAIN labels
                          THEN {"cached"} ELSE {"listed", "error"}) :
             /\ log' = IF listing = "cached" THEN log
                       ELSE Append(log, Request("labels", i, gitea_repo, 0, BodyId,
                                                <<>>, FALSE,
                                                IF listing = "listed" THEN 200 ELSE 404,
                                                ""))
             /\ labels' = IF listing = "listed"
                          THEN (gitea_repo :> RepoLabels(gitea_repo)) @@ labels
                          ELSE labels
             /\ IF listing = "error"
                THEN Raise("TypeError") /\ i' = i
                ELSE IF SkipsIssue(issue)
                     THEN pc' = "loop" /\ i' = i + 1 /\ raised' = raised
                     ELSE pc' = "post" /\ i' = i /\ raised' = raised
    /\ UNCHANGED <<issues, file, file_at_start, comments_to_update,
                   map_redmine_to_gitea, locals, u, next_number, next_comment_id>>

\* 'assigned_to' in issue (line 316).
HasAssignedTo(issue) == issue.assigned_to # 0

\* assigned_to of lines 315-317: the name of the assignee, '-' without one.
AssignedTo(issue) == IF HasAssignedTo(issue) THEN issue.assigned_to_name ELSE "-"

\* The creation payload of lines 326-366; the tracker is mapped.  The key
\* 'assignee' is set when assigned_to is not '-' (line 352).
Payload(issue, table) ==
    [body |-> Body(issue),
     closed |-> Closed(issue.status),
     has_assignee |-> AssignedTo(issue) # "-",
     assignee |-> IF AssignedTo(issue) # "-" THEN get_username(issue.assigned_to) ELSE "",
     labels |-> DataLabels(issue, table),
     sudo |-> get_username(issue.author)]

\* What follows a response to a creation request (lines 375-392), retry
\* telling whether the request was the second one.  On a first 422, line 376
\* reads assigned_to_username, which is unbound for an issue without
\* 'assigned_to' (UnboundLocalError), and line 377 deletes the key 'assignee',
\* which the payload of an assignee named '-' does not hold (KeyError).
AfterCreate(gitea_repo, payload, resp, retry) ==
    /\ log' = Append(log, Request("create", i, gitea_repo, resp.number, BodyId,
                                  payload.body, payload.has_assignee, resp.status,
                                  payload.sudo))
    /\ next_number' = IF resp.status = 201
                      THEN [next_number EXCEPT ![gitea_repo] = @ + 1]
                      ELSE next_number
    /\ response' = resp
    /\ IF resp.status = 422 /\ ~retry
       THEN IF ~HasAssignedTo(issues[i])
            THEN data' = payload /\ Raise("UnboundLocalError")
            ELSE IF payload.has_assignee
                 THEN /\ data' = [payload EXCEPT !.has_assignee = FALSE, !.assignee = ""]
                      /\ pc' = "retry"
                      /\ raised' = raised
                 ELSE data' = payload /\ Raise("KeyError")
       ELSE /\ data' = payload
            /\ IF Ok(resp.status)
               THEN pc' = "created" /\ raised' = raised
               ELSE Raise("SystemExit")

\* create_issue, lines 326-388: the payload is built and posted.
PostIssue ==
    /\ pc = "post"
    /\ LET issue == issues[i]
           gitea_repo == get_gitea_repo(issue.project)
       IN IF issue.tracker \notin DOMAIN issue_type_map
          THEN /\ Raise("KeyError")
               /\ UNCHANGED <<log, next_number, response, data>>
          ELSE LET payload == Payload(issue, labels[gitea_repo])
               IN \E resp \in CreateResponses(gitea_repo, payload.labels) :
                     AfterCreate(gitea_repo, payload, resp, FALSE)
    /\ UNCHANGED <<issues, file, file_at_start, labels, comments_to_update,
                   map_redmine_to_gitea, i, gitea_issue_id, gitea_labels, attempts,
                   c, u, next_comment_id>>

\* create_issue, lines 379-388: the creation request without the assignee.
RetryPost ==
    /\ pc = "retry"
    /\ LET gitea_repo == get_gitea_repo(issues[i].project)
       IN \E resp \in CreateResponses(gitea_repo, data.labels) :
             AfterCreate(gitea_repo, data, resp, TRUE)
    /\ UNCHANGED <<issues, file, file_at_start, labels, comments_to_update,
                   map_redmine_to_gitea, i, gitea_issue_id, gitea_labels, attempts,
                   c, u, next_comment_id>>

\* create_issue, lines 391-402: the journal is fetched from Redmine, the
\* mapping is recorded, the description is scanned, and the labels of the
\* response are compared with the intended ones.
Register ==
    /\ pc = "created"
    /\ gitea_issue_id' = response.number
    /\ \E fetched \in BOOLEAN :
          IF ~fetched
          THEN /\ Raise("ConnectionError")
               /\ UNCHANGED <<map_redmine_to_gitea, comments_to_update, gitea_labels>>
          ELSE LET issue == issues[i]
                   gitea_repo == get_gitea_repo(issue.project)
                   observed == SortList(response.labels)
               IN /\ map_redmine_to_gitea' =
                         Record(map_redmine_to_gitea, issue.id, response.number)
                  /\ comments_to_update' =
                         check_for_references(comments_to_update, Description(issue),
                                              gitea_repo, response.number, BodyId)
                  /\ gitea_labels' = IF response.has_labels THEN observed ELSE <<>>
                  /\ pc' = IF response.has_labels /\ observed # data.labels
                           THEN "labels" ELSE "comments"
                  /\ raised' = raised
    /\ UNCHANGED <<issues, file, file_at_start, labels, i, data, response, attempts,
                   c, u, next_number, next_comment_id, log>>

\* create_issue, lines 402-406, and add_labels: one turn of the label loop.
\* Gitea answers with the list of the labels of the issue, or with an error
\* object, on which the list comprehension of line 221 raises TypeError.
AddLabels ==
    /\ pc = "labels"
    /\ \/ \E reported \in ReportedLabels(data.labels) :
             /\ gitea_labels' = SortList(reported)
             /\ pc' = IF SortList(reported) # data.labels THEN "labels" ELSE "comments"
             /\ raised' = raised
       \/ /\ Raise("TypeError")
          /\ gitea_labels' = gitea_labels
    /\ attempts' = IF attempts < MaxLabelRetries THEN attempts + 1 ELSE attempts
    /\ UNCHANGED <<issues, file, file_at_start, labels, comments_to_update,
                   map_redmine_to_gitea, i, data, response, gitea_issue_id, c, u,
                   next_number, next_comment_id, log>>

\* add_comment for the journal entry comment, rendered being the outcome of
\* its rendering: an exception of the rendering leaves create_issue before
\* the request; else the body is posted and the posted comment is scanned.
PostComment(comment, gitea_repo, rendered) ==
    IF rendered.raises # "none"
    THEN /\ Raise(rendered.raises)
         /\ UNCHANGED <<log, comments_to_update, next_comment_id, c>>
    ELSE \E status \in {201, 500} :
            /\ log' = Append(log, Request("comment", i, gitea_repo, gitea_issue_id,
                                          CommentId(IF Ok(status) THEN next_comment_id
                                                    ELSE 0),
                                          rendered.value, FALSE, status,
                                          get_username(comment.user)))
            /\ IF Ok(status)
               THEN /\ comments_to_update' =
                           check_for_references(comments_to_update, rendered.value,
                                                gitea_repo, gitea_issue_id,
                                                CommentId(next_comment_id))
                    /\ next_comment_id' = next_comment_id + 1
                    /\ c' = c + 1
                    /\ UNCHANGED <<pc, raised>>
               ELSE /\ Raise("SystemExit")
                    /\ UNCHANGED <<comments_to_update, next_comment_id, c>>

\* create_issue, lines 426-489, and add_comment: one journal entry is
\* rendered and posted.
AddComment ==
    /\ pc = "comments"
    /\ c <= Len(issues[i].journals)
    /\ PostComment(issues[i].journals[c], get_gitea_repo(issues[i].project),
                   CommentBody(issues[i].journals[c]))
    /\ UNCHANGED <<issues, file, file_at_start, labels, map_redmine_to_gitea, i, data,
                   response, gitea_issue_id, gitea_labels, attempts, u, next_number>>

\* create_issue returns after the last journal entry: the next issue is due.
Return ==
    /\ pc = "comments"
    /\ c > Len(issues[i].journals)
    /\ pc' = "loop"
    /\ i' = i + 1
    /\ ResetLocals
    /\ UNCHANGED <<issues, file, file_at_start, labels, comments_to_update,
                   map_redmine_to_gitea, u, raised, next_number, next_comment_id, log>>

\* AfterFinally with update_comments called whatever left the loop.
AfterFinallyAlwaysUpdates(exception) == "update"

\* Lines 64-71: after the finally clause update_comments is called, unless
\* an exception left the loop, which then ends the process.
AfterFinally(exception) == IF exception = "none" THEN "update" ELSE "failed"

\* The exit status of the process that an exception leaves: raise SystemExit()
\* carries no code, which the interpreter turns into status 0; any other
\* exception ends with a traceback and status 1.
ExitStatus(exception) == IF exception \in {"none", "SystemExit"} THEN 0 ELSE 1

\* process_issues, lines 67-69: the finally clause writes the registry, after
\* the last issue or when an exception left the loop (which ends the run).
Finally ==
    /\ \/ pc = "loop" /\ i > Len(issues)
       \/ pc = "finally"
    /\ file' = StoredFile(map_redmine_to_gitea)
    /\ pc' = AfterFinally(raised)
    /\ UNCHANGED <<issues, file_at_start, labels, comments_to_update,
                   map_redmine_to_gitea, i, locals, u, raised, next_number,
                   next_comment_id, log>>

\* ----------------------------------------------------------------- phase 2
\* edit_comment_body, lines 237-250: the PATCH request for the issue (when
\* comment_id is 'body') or for the comment; its response is not looked at.
edit_comment_body(gitea_repo, issue_id, comment_id, body) ==
    Request("edit", 0, gitea_repo, issue_id, comment_id, body, FALSE, 200, "")

\* Line 87 for the outcome of the inner loop of update_comments: the text is
\* sent; or the exception of the loop leaves update_comments and
\* process_issues, which nothing catches, and no request is sent.
SendRewritten(comment, rewritten) ==
    IF rewritten.raises # "none"
    THEN /\ raised' = rewritten.raises
         /\ pc' = "aborted"
         /\ UNCHANGED <<u, log>>
    ELSE /\ log' = Append(log, edit_comment_body(comment.gitea_repo, comment.issue_id,
                                                 comment.comment_id, rewritten.content))
         /\ u' = u + 1
         /\ UNCHANGED <<pc, raised>>

\* update_comments, lines 75-87: one deferred reference is rewritten and sent.
UpdateComment ==
    /\ pc = "update"
    /\ u <= Len(comments_to_update)
    /\ SendRewritten(comments_to_update[u],
                     RewriteContent(comments_to_update[u].content,
                                    comments_to_update[u].matches,
                                    map_redmine_to_gitea))
    /\ UNCHANGED <<issues, file, file_at_start, labels, comments_to_update,
                   map_redmine_to_gitea, i, locals, next_number, next_comment_id>>

\* update_comments and process_issues return.
Finish ==
    /\ pc = "update"
    /\ u > Len(comments_to_update)
    /\ pc' = "done"
    /\ UNCHANGED <<issues, file, file_at_start, labels, comments_to_update,
                   map_redmine_to_gitea, i, locals, u, raised, next_number,
                   next_comment_id, log>>

Next ==
    \/ StartIssue
    \/ PostIssue
    \/ RetryPost
    \/ Register
    \/ AddLabels
    \/ AddComment
    \/ Return
    \/ Finally
    \/ UpdateComment
    \/ Finish

Spec == Init /\ [][Next]_vars

\* ------------------------------------------------- runs with any tracker
\* A source issue whose tracker has no entry in issue_type_map.
UnmappedContent ==
    [description |-> TextRefs, tracker |-> "Task", status |-> "New",
     author |-> 1, assigned_to |-> 1, assigned_to_name |-> "Alice A",
     custom_fields |-> FALSE,
     journals |-> <<NoteEvent>>]

\* Journal entries with a change of project and of a custom field (whose name
\* is its number), and with a subject set from null.
ProjectEvent ==
    [notes |-> <<>>, user |-> 1,
     details |-> <<[property |-> "attr", name |-> <<"project_id">>,
                    old_value |-> Value(<<"1">>), new_value |-> Value(<<"2">>)],
                   [property |-> "cf", name |-> <<"1", "2">>,
                    old_value |-> Value(<<"a">>), new_value |-> Value(<<"b">>)]>>]
SubjectEvent ==
    [notes |-> <<>>, user |-> 1,
     details |-> <<[property |-> "attr", name |-> <<"subject">>,
                    old_value |-> Null, new_value |-> Value(<<"c">>)]>>]

\* A source issue whose second journal entry cannot be rendered.
RenderContent ==
    [description |-> TextPlain, tracker |-> "Bug", status |-> "New",
     author |-> 1, assigned_to |-> 0, assigned_to_name |-> "",
     custom_fields |-> FALSE,
     journals |-> <<ProjectEvent, SubjectEvent>>]

\* The issues of one project whose trackers are not all mapped and whose
\* journals cannot all be rendered.
TrackerIssueSet ==
    {Issue(id, projects[1], FALSE, k) :
        id \in SourceIds, k \in Contents \cup {UnmappedContent, RenderContent}}

TrackerIssueLists == UNION {[1..n -> TrackerIssueSet] : n \in 0..MaxIssues}

\* The state after construction, for a listing drawn from TrackerIssueLists.
InitTrackers ==
    /\ issues \in TrackerIssueLists
    /\ file = NoFile
    /\ file_at_start = file
    /\ next_number = [r \in Repos |-> 1]
    /\ labels = [r \in {} |-> 0]
    /\ comments_to_update = <<>>
    /\ map_redmine_to_gitea = EmptyMap
    /\ pc = "loop"
    /\ i = 1
    /\ data = NoData
    /\ response = NoResponse
    /\ gitea_issue_id = 0
    /\ gitea_labels = <<>>
    /\ attempts = 0
    /\ c = 1
    /\ u = 1
    /\ raised = "none"
    /\ next_comment_id = 1
    /\ log = <<>>

SpecTrackers == InitTrackers /\ [][Next]_vars

\* ------------------------------------- runs with a numeral int() refuses
\* A reference whose numeral has one digit more than int() takes.
TextLong == <<"#">> \o [p \in 1..(INT_MAX_STR_DIGITS + 1) |-> "0"]

\* A source issue whose description holds such a reference.
LongContent ==
    [description |-> TextLong, tracker |-> "Bug", status |-> "New",
     author |-> 1, assigned_to |-> 1, assigned_to_name |-> "Alice A",
     custom_fields |-> FALSE,
     journals |-> <<NoteEvent>>]

\* The issues of one project whose references int() does not all take.
LongIssueSet ==
    {Issue(id, projects[1], FALSE, k) :
        id \in SourceIds,
        k \in {LongContent} \cup {k \in Contents : k.description = TextRefs}}

LongIssueLists == UNION {[1..n -> LongIssueSet] : n \in 0..MaxIssues}

\* The state after construction, for a listing drawn from LongIssueLists.
InitLongTokens ==
    /\ issues \in LongIssueLists
    /\ file = NoFile
    /\ file_at_start = file
    /\ next_number = [r \in Repos |-> 1]
    /\ labels = [r \in {} |-> 0]
    /\ comments_to_update = <<>>
    /\ map_redmine_to_gitea = EmptyMap
    /\ pc = "loop"
    /\ i = 1
    /\ data = NoData
    /\ response = NoResponse
    /\ gitea_issue_id = 0
    /\ gitea_labels = <<>>
    /\ attempts = 0
    /\ c = 1
    /\ u = 1
    /\ raised = "none"
    /\ next_comment_id = 1
    /\ log = <<>>

SpecLongTokens == InitLongTokens /\ [][Next]_vars

\* ------------------------------------------------------------------ claims
IsEdit(request) == request.kind = "edit"

\* The edit calls of phase 2, in order: the k-th one is sent for
\* comments_to_update[k].
Edits == SelectSeq(log, IsEdit)

\* create_issue is running or due for some source issue.
InPhase1 == pc \in {"loop", "post", "retry", "created", "labels", "comments"}

\* C1: no edit call of phase 2 is sent before create_issue has finished for
\* every source issue, comments included: once the log holds an edit, the for
\* loop has passed the last issue without an exception (the only exception
\* there can be is one that update_comments raised itself), and every request
\* of phase 1 precedes every edit.
C1_EditsOnlyAfterPhase1 ==
    \A k \in 1..Len(log) :
        log[k].kind = "edit" =>
            /\ pc \in {"update", "done", "aborted"}
            /\ i = Len(issues) + 1
            /\ pc # "aborted" => raised = "none"
            /\ \A j \in 1..Len(log) : log[j].kind # "edit" => j < k

\* C1 happens: an edit was sent in a run of two issues with a posted comment.
C1_Witness ==
    /\ Len(issues) >= 2
    /\ \E k \in 1..Len(log) : log[k].kind = "edit"
    /\ \E j \in 1..Len(log) : log[j].kind = "comment"

\* C2: for a private source issue create_issue sends no creation and no
\* comment request, and the step that processes it changes neither
\* map_redmine_to_gitea nor comments_to_update.
C2_PrivateIssueSkipped ==
    /\ [](\A k \in 1..Len(log) :
             log[k].kind \in {"create", "comment"} => ~issues[log[k].issue].is_private)
    /\ [][(pc = "loop" /\ i <= Len(issues) /\ issues[i].is_private) =>
             /\ map_redmine_to_gitea' = map_redmine_to_gitea
             /\ comments_to_update' = comments_to_update
             /\ pc' \in {"loop", "finally"}]_vars

\* C2 happens: a private issue was passed and a later issue was created.
C2_Witness ==
    /\ i > 2
    /\ issues[1].is_private
    /\ \E k \in 1..Len(log) : log[k].kind = "create" /\ log[k].status = 201

\* C3: no request of any kind is sent to Gitea while a private source issue
\* is processed.
C3_PrivateNeverReachesTarget ==
    \A k \in 1..Len(log) : log[k].issue # 0 => ~issues[log[k].issue].is_private

\* C4: the label loop ends: when MaxLabelRetries calls of add_labels have not
\* produced the intended list, the loop is left with an error and runs no more.
C4_LabelLoopBounded == pc = "labels" => attempts < MaxLabelRetries

\* The mappings of the registry that the stored file does not hold.
Unsaved ==
    {k \in DOMAIN map_redmine_to_gitea :
        ~(/\ file.exists
          /\ k \in DOMAIN file.content
          /\ file.content[k] = map_redmine_to_gitea[k])}

\* C5: at every point of phase 1 the stored file holds every recorded mapping
\* except at most the one in flight.
C5_CrashLosesAtMostOne == InPhase1 => Cardinality(Unsaved) <= 1

\* C6: recording a source ID that the registry holds leaves the registry as it
\* is, and fails when the target ID differs.
C6_DuplicateRecordRejected ==
    [][(pc = "created" /\ issues[i].id \in DOMAIN map_redmine_to_gitea) =>
          /\ map_redmine_to_gitea' = map_redmine_to_gitea
          /\ (map_redmine_to_gitea[issues[i].id] # response.number =>
                 raised' # "none")]_vars

\* C7: the registry is injective at all times, and a source ID that has a
\* mapping is never given another one.
C7_RegistryInjective ==
    /\ [](\A a, b \in DOMAIN map_redmine_to_gitea :
             map_redmine_to_gitea[a] = map_redmine_to_gitea[b] => a = b)
    /\ [][\A k \in DOMAIN map_redmine_to_gitea :
             /\ k \in DOMAIN map_redmine_to_gitea'
             /\ map_redmine_to_gitea'[k] = map_redmine_to_gitea[k]]_vars

\* C8: a run that finds a stored registry sends no creation request for a
\* source ID stored in it, rewrites with the stored mappings, and the file it
\* writes still holds every mapping stored at the start.
C8_ResumeKeepsStoredRegistry ==
    file_at_start.exists =>
        /\ \A k \in 1..Len(log) :
              log[k].kind = "create" =>
                  issues[log[k].issue].id \notin DOMAIN file_at_start.content
        /\ pc \in {"update", "done", "failed"} =>
              \A id \in DOMAIN file_at_start.content :
                  /\ id \in DOMAIN file.content
                  /\ file.content[id] = file_at_start.content[id]
                  /\ pc # "failed" =>
                        /\ id \in DOMAIN map_redmine_to_gitea
                        /\ map_redmine_to_gitea[id] = file_at_start.content[id]

\* The text in which every token '#<old>' whose ID the registry holds is
\* replaced, once and where it stands, by '#<new> (redmine id: <old>)'.
RECURSIVE TokenwiseFrom(_, _, _)
TokenwiseFrom(s, p, registry) ==
    IF p > Len(s) THEN <<>>
    ELSE IF s[p] = "#" /\ DigitRun(s, p + 1) > 0
         THEN LET token == SubSeq(s, p, p + DigitRun(s, p + 1))
                  id == ParseInt(Tail(token)).int
              IN (IF id \in DOMAIN registry
                  THEN Composite(registry[id], id) ELSE token)
                 \o TokenwiseFrom(s, p + Len(token), registry)
         ELSE <<s[p]>> \o TokenwiseFrom(s, p + 1, registry)

Tokenwise(s, registry) == TokenwiseFrom(s, 1, registry)

Resolves(token) ==
    /\ ParseInt(Tail(token)).raises = "none"
    /\ ParseInt(Tail(token)).int \in DOMAIN map_redmine_to_gitea

\* C9: for a deferred reference whose tokens all resolve, the text sent is the
\* original text with each occurrence of each token replaced exactly once.
C9_RewriteReplacesEachTokenOnce ==
    \A k \in 1..Len(Edits) :
        (\A m \in 1..Len(comments_to_update[k].matches) :
            Resolves(comments_to_update[k].matches[m]))
        => Edits[k].body = Tokenwise(comments_to_update[k].content,
                                     map_redmine_to_gitea)

\* How often token is among the tokens of a text.
Occurrences(token, text) ==
    Cardinality({m \in 1..Len(FindAll(text)) : FindAll(text)[m] = token})

\* C10: a token without registry entry is left untouched (each of its
\* occurrences in the original text is still a token of the text sent), every
\* deferred reference is sent, and phase 2 does not abort.
C10_UnresolvedTokenUntouched ==
    /\ \A k \in 1..Len(Edits) :
          \A m \in 1..Len(comments_to_update[k].matches) :
              LET token == comments_to_update[k].matches[m]
              IN ~Resolves(token) =>
                    Occurrences(token, Edits[k].body)
                    >= Occurrences(token, comments_to_update[k].content)
    /\ pc = "done" => Len(Edits) = Len(comments_to_update)
    /\ pc \in {"update", "done"} => raised = "none"

\* C11: update_comments sends exactly one edit call per deferred reference,
\* the k-th call for the k-th reference and against its own location (the
\* issue when comment_id is 'body', else that comment), and when phase 2 has
\* ended, by its return or by an exception, no reference is left without its
\* call.
C11_EachReferenceEditedOnce ==
    /\ Len(Edits) = u - 1
    /\ Len(Edits) <= Len(comments_to_update)
    /\ \A k \in 1..Len(Edits) :
          /\ Edits[k].repo = comments_to_update[k].gitea_repo
          /\ Edits[k].number = comments_to_update[k].issue_id
          /\ Edits[k].comment_id = comments_to_update[k].comment_id
    /\ pc \in {"done", "aborted"} => Len(Edits) = Len(comments_to_update)

\* The creation requests sent for the source issue at index j, in order.
Creates(j) == SelectSeq(log, LAMBDA request : request.kind = "create" /\ request.issue = j)

\* C12: at most two creation requests per non-private source issue; a second
\* one only after a 422 to a first one that carried an assignee, with the same
\* payload less the assignee, and its success goes on as a success; every other
\* response that is no success (a 422 to a request without assignee among
\* them) is the last request of the run, which an exception ends; at most one
\* creation request per source issue succeeds.
C12_CreationRetriedOnceWithoutAssignee ==
    /\ [](/\ \A j \in 1..Len(issues) :
                LET cr == Creates(j)
                IN /\ Len(cr) <= 2
                   /\ Len(cr) >= 1 => ~issues[j].is_private
                   /\ Len(cr) = 2 =>
                         /\ cr[1].status = 422
                         /\ cr[1].has_assignee
                         /\ ~cr[2].has_assignee
                         /\ cr[2].body = cr[1].body
                         /\ cr[2].sudo = cr[1].sudo
                         /\ cr[2].repo = cr[1].repo
                   /\ Cardinality({k \in 1..Len(cr) : cr[k].status = 201}) <= 1
          /\ \A k \in 1..Len(log) :
                (/\ log[k].kind = "create"
                 /\ log[k].status # 201
                 /\ ~(log[k].status = 422 /\ log[k].has_assignee))
                => /\ k = Len(log)
                   /\ raised # "none"
                   /\ pc \in {"finally", "failed"}
          /\ \A k \in 1..Len(log) :
                (log[k].kind = "create" /\ log[k].has_assignee)
                => /\ HasAssignedTo(issues[log[k].issue])
                   /\ issues[log[k].issue].assigned_to_name # "-"
                   /\ \A m \in 1..(k - 1) :
                         ~(log[m].kind = "create" /\ log[m].issue = log[k].issue)
          /\ pc = "retry" =>
                LET issue == issues[i]
                    first == Payload(issue, labels[get_gitea_repo(issue.project)])
                IN /\ first.has_assignee
                   /\ data = [first EXCEPT !.has_assignee = FALSE, !.assignee = ""])
    /\ [][(pc = "retry" /\ response'.status = 201) =>
             (pc' = "created" /\ raised' = "none" /\ data' = data)]_vars

\* C12 happens: an issue was created by the second request, sent after a 422
\* to the first one, and the run ended normally.
C12_Witness ==
    /\ pc = "done"
    /\ \E j \in 1..Len(issues) :
          Len(Creates(j)) = 2 /\ Creates(j)[2].status = 201

\* C13: when a failed creation or a failed comment posting has ended phase 1,
\* the process ends with an exit status other than 0, no edit call of phase 2
\* was made, no later source issue was taken up, and the stored file holds
\* exactly the mappings recorded up to the failure.
C13_FatalErrorEndsWithFailure ==
    (pc = "failed" /\ raised = "SystemExit") =>
        /\ ExitStatus(raised) # 0
        /\ Len(Edits) = 0
        /\ i <= Len(issues)
        /\ \A k \in 1..Len(log) : log[k].issue <= i
        /\ file = StoredFile(map_redmine_to_gitea)

\* The label of a tracker and the label list of a tracker and a status, as the
\* field translation is to produce them.
TypeLabel(tracker) ==
    CASE tracker = "Bug" -> "bug"
      [] tracker = "Feature" -> "enhancement"
      [] tracker = "Support" -> "support"

ExpectedLabels(tracker, status, table) ==
    SortList(<<table[TypeLabel(tracker)]>>
             \o (IF status = "Rejected" THEN <<table["wontfix"]>> ELSE <<>>))

\* C14: the label list of the creation payload is the sorted IDs of the
\* tracker's label, plus the ID of 'wontfix' exactly when the status is
\* 'Rejected', and closed is true exactly for Resolved, Closed and Rejected.
C14_PayloadLabelsAndClosed ==
    data # NoData =>
        LET issue == issues[i]
        IN /\ data.labels = ExpectedLabels(issue.tracker, issue.status,
                                           RepoLabels(get_gitea_repo(issue.project)))
           /\ data.closed = (issue.status \in {"Resolved", "Closed", "Rejected"})

\* The trackers that have a label.
Mapped(tracker) == tracker \in {"Bug", "Feature", "Support"}

\* The for loop is at a non-private issue whose tracker has no label.
AtUnmapped == i <= Len(issues) /\ ~issues[i].is_private /\ ~Mapped(issues[i].tracker)

\* C15: for a non-private issue whose tracker has no label, create_issue
\* raises before the creation request: no creation request is ever sent for
\* such an issue (the label listing is its only request), the run ends on it
\* with an exception, the step leaves the registry as it is, no later issue is
\* taken up and no edit call of phase 2 is sent.
C15_UnmappedTrackerStopsRun ==
    /\ [](/\ \A k \in 1..Len(log) :
                log[k].kind = "create" => Mapped(issues[log[k].issue].tracker)
          /\ AtUnmapped =>
                /\ pc \in {"loop", "post", "finally", "failed"}
                /\ pc \in {"loop", "post"} <=> raised = "none"
                /\ raised \in {"none", "KeyError", "TypeError"}
                /\ Len(Edits) = 0
                /\ \A k \in 1..Len(log) :
                      /\ log[k].issue <= i
                      /\ log[k].issue = i => log[k].kind = "labels")
    /\ [][AtUnmapped => i' = i]_vars
    /\ [][(pc = "post" /\ ~Mapped(issues[i].tracker)) =>
             /\ raised' = "KeyError"
             /\ pc' = "finally"
             /\ map_redmine_to_gitea' = map_redmine_to_gitea
             /\ comments_to_update' = comments_to_update
             /\ log' = log]_vars
    /\ [][raised # "none" =>
             /\ pc' \in {"finally", "failed"}
             /\ i' = i
             /\ log' = log
             /\ map_redmine_to_gitea' = map_redmine_to_gitea]_vars

\* C15 happens: the run has ended on the unmapped tracker of an issue that is
\* not the last one of the listing.
C15_Witness ==
    /\ pc = "failed"
    /\ raised = "KeyError"
    /\ AtUnmapped
    /\ i < Len(issues)

\* The requests that posted the text at the location of a deferred reference:
\* the creation of the issue for 'body', else the posting of the comment.
PostedAt(reference) ==
    {k \in 1..Len(log) :
        /\ log[k].status = 201
        /\ log[k].repo = reference.gitea_repo
        /\ log[k].number = reference.issue_id
        /\ IF reference.comment_id.body
           THEN log[k].kind = "create"
           ELSE log[k].kind = "comment" /\ log[k].comment_id = reference.comment_id}

\* C16: the text stored in a deferred reference is the text that was posted
\* at its location, for an issue body as for a comment, so that the text sent
\* by phase 2 for an issue body still holds the table of imported properties.
C16_StoredTextIsPostedText ==
    /\ \A n \in 1..Len(comments_to_update) :
          \A k \in PostedAt(comments_to_update[n]) :
              log[k].body = comments_to_update[n].content
    /\ \A k \in 1..Len(Edits) :
          Edits[k].comment_id.body =>
              \E p \in 1..Len(Edits[k].body) :
                  Edits[k].body[p] = "\n\n***\n*Imported from Redmine*\n|table|\n"

\* The comment requests sent for the source issue at index j, in order.
Comments(j) == SelectSeq(log, LAMBDA request : request.kind = "comment" /\ request.issue = j)

\* The username of the Redmine user id, or the default username.
ActingUser(id) == IF id \in DOMAIN users THEN users[id].username ELSE DEFAULT_USERNAME

\* request is the posting of the journal entry event of the source issue
\* at index j: its rendered body, its repository and its acting user.
PostsEvent(request, event, j) ==
    LET body == CommentBody(event)
    IN /\ body.raises = "none"
       /\ request.body = body.value
       /\ request.sudo = ActingUser(event.user)
       /\ request.repo = get_gitea_repo(issues[j].project)

\* C17: the comments posted for a created issue are its journal entries, one
\* request each and in their order, against the issue's repository and number
\* and with the acting user as sudo; an entry without note and details is
\* posted like any other; each comment follows the creation and the record of
\* its issue and precedes the creation request of every later issue.  Stated
\* on the steps: the log only grows, by one request a step; a step that posts
\* a comment posts the next journal entry of the issue in process, after the
\* creation and the record of that issue and before any request for a later
\* issue; a creation request follows no comment of its own or a later issue;
\* and create_issue returns only after a posted comment for every entry.
C17_OneCommentPerEventInOrder ==
    [][/\ Len(log') \in {Len(log), Len(log) + 1}
       /\ SubSeq(log', 1, Len(log)) = log
       /\ (Len(log') > Len(log) /\ log'[Len(log')].kind = "comment") =>
             LET request == log'[Len(log')]
                 posted == Comments(i)
             IN /\ request.issue = i
                /\ ~issues[i].is_private
                /\ Len(posted) < Len(issues[i].journals)
                /\ PostsEvent(request, issues[i].journals[Len(posted) + 1], i)
                /\ \A n \in 1..Len(posted) : posted[n].status = 201
                /\ \E k0 \in 1..Len(log) :
                      /\ log[k0].kind = "create"
                      /\ log[k0].issue = i
                      /\ log[k0].status = 201
                      /\ log[k0].number = request.number
                /\ \A k1 \in 1..Len(log) : log[k1].issue <= i
                /\ issues[i].id \in DOMAIN map_redmine_to_gitea
                /\ map_redmine_to_gitea[issues[i].id] = request.number
       /\ (Len(log') > Len(log) /\ log'[Len(log')].kind = "create") =>
             \A k \in 1..Len(log) :
                 log[k].kind = "comment" => log[k].issue < log'[Len(log')].issue
       /\ (i' = i + 1 /\ ~issues[i].is_private) =>
             /\ Len(Comments(i)) = Len(issues[i].journals)
             /\ \A n \in 1..Len(Comments(i)) : Comments(i)[n].status = 201]_vars

\* C17 happens: an issue whose first journal entry has neither note nor
\* details got both its comments, and the next issue was created after them.
C17_Witness ==
    \E j \in 1..Len(issues) :
        /\ j < i
        /\ Len(issues[j].journals) = 2
        /\ issues[j].journals[1] = EmptyEvent
        /\ Len(Comments(j)) = 2
        /\ Comments(j)[1].body = <<"\n\n*Date: ", "created_on", "*">>
        /\ Len(Creates(j + 1)) > 0

\* C18: a deferred reference exists only for a text with a token, and its
\* token list holds each distinct token of the text exactly once.
C18_ReferenceListsDistinctTokens ==
    \A n \in 1..Len(comments_to_update) :
        LET matches == comments_to_update[n].matches
            found == FindAll(comments_to_update[n].content)
        IN /\ Len(matches) > 0
           /\ {matches[a] : a \in 1..Len(matches)} = {found[a] : a \in 1..Len(found)}
           /\ \A a, b \in 1..Len(matches) : matches[a] = matches[b] => a = b

\* No source ID occurs twice in the listing.
DistinctIds == \A a, b \in 1..Len(issues) : issues[a].id = issues[b].id => a = b

\* C19: when phase 1 has ended, normally or by an exception, the stored file
\* maps the source ID of every issue that a creation request has created to
\* the number it was given (for a listing without repeated source IDs).
C19_CreatedIssuesAreStored ==
    (DistinctIds /\ pc \in {"update", "done", "failed"}) =>
        \A k \in 1..Len(log) :
            (log[k].kind = "create" /\ log[k].status = 201) =>
                LET id == issues[log[k].issue].id
                IN /\ file.exists
                   /\ id \in DOMAIN file.content
                   /\ file.content[id] = log[k].number

\* C20: when phase 2 rewrites a token '#<old>' in a text of repository R, the
\* source issue <old> was created in R under the number written (for a
\* listing without repeated source IDs).
C20_RewriteStaysInRepository ==
    DistinctIds =>
        \A k \in 1..Len(Edits) :
            \A m \in 1..Len(comments_to_update[k].matches) :
                LET token == comments_to_update[k].matches[m]
                    old == ParseInt(Tail(token)).int
                IN Resolves(token) =>
                      \E n \in 1..Len(log) :
                          /\ log[n].kind = "create"
                          /\ log[n].status = 201
                          /\ issues[log[n].issue].id = old
                          /\ log[n].number = map_redmine_to_gitea[old]
                          /\ log[n].repo = Edits[k].repo

====
